---- MODULE Spec2Model ----
(***************************************************************************)
(* Model of neuralmonkey's training driver (training_loop in               *)
(* neuralmonkey/learning_utils.py) and of the graph construction of the    *)
(* recurrent decoder (Decoder.__init__ in decoder.py).                     *)
(*                                                                         *)
(* training_loop is modelled statement group by statement group: the       *)
(* KeyboardInterrupt handler encloses the whole epoch/batch loop, and      *)
(* Python raises KeyboardInterrupt between any two statements of the       *)
(* guarded block, so every position of the loop body is a program counter  *)
(* value at which the interrupt action is enabled.                         *)
(*                                                                         *)
(* Names that learning_utils.py uses but never binds (sess, saver,         *)
(* decoder, batch_feed_dict, val_plots, ...) are taken to be supplied by   *)
(* the rest of the package.  Locals that the function binds only on some   *)
(* paths (summary_str, tb_writer) are tracked: reading one before it is    *)
(* bound raises UnboundLocalError, which ends the run in "crashed".        *)
(*                                                                         *)
(* Scores are integers (tenths of the metric); np.inf is the integer Inf,  *)
(* which is larger than every score.  Slot k of the model is               *)
(* variables_files[k-1] of the code.                                       *)
(***************************************************************************)
EXTENDS Integers, Sequences, FiniteSets, TLC

\* ---------------------------------------------------------------- bounds
MaxN == 2
Epochs == 2
MaxTests == 2

\* the batches train_dataset.batch_dataset(batch_size) yields in every epoch
TrainBatches == <<"batch0", "batch1">>
BatchesPerEpoch == Len(TrainBatches)

\* the decoder: output lengths, encoder lists and batch sizes tried
MaxLen == 2
MaxEncoders == 2
MaxBatch == 2

\* the copy-augmented step function: source positions of one example
MaxSrc == 2

\* the vocabulary indices of one row of logits
Vocabulary == {1, 2}

\* logits, in units of ln 2 (so that exp is a power of two and exact)
Logits == {-1, 0, 1}

\* the components of one embedding vector (embedding_size of them)
Components == {1, 2}

\* values of scheduled_sampling, the k of the inverse sigmoid decay
Decays == {1, 2}

\* values of the learning step fed to the decoder
LearningSteps == {0, 1, 2}

\* values of tf.random_uniform, in thousandths
Draws == {0, 300, 900}

\* widths of encoder outputs and of the decoder state
Widths == {2, 3}

\* np.inf: larger than every validation score
Inf == 100

\* validation scores, in tenths (0.2, 0.3, 0.5, 0.7)
Scores == {2, 3, 5, 7}
LoggingPeriods == {1, 3}
ValidationPeriods == {1, 2, 3}

\* test_datasets: None (the default) or a list of that many datasets
None == -1
TestConfigs == {None, 0, MaxTests}

\* link_best_vars on disk: absent, left over from an earlier run, or slot k
NoLink == 0
StaleLink == -1
\* a slot file that was never written
NoFile == -1

VARIABLES
    \* ---- configuration (arguments of training_loop)
    save_n_best_vars, minimize_metric, logging_period, validation_period,
    log_directory, test_datasets,
    \* ---- locals of training_loop
    pc, i, batch_iter, batch_n, step, saved_scores, best_score,
    best_score_epoch, best_score_batch_no, this_score, worst_index,
    worst_score, summary_str, tb_writer,
    \* ---- the session and the file system
    params, files, link_best_vars,
    \* ---- history (not program state): what happened so far
    history, interrupted, restores, tested, writes, relinks, pre,
    trainer_runs, train_logs

VARIABLES
    \* ---- arguments of Decoder.__init__ and the size of a fed batch
    max_out_len, encoders, rnn_size, scheduled_sampling, copy_net,
    use_attention, dropout_placeholder, batch_size,
    \* ---- the graph under construction
    d_pc, encoded, tf_variables, gt_inputs, targets, weights_ins,
    embedded_gt_inputs, rnn_outputs_gt_ins, rnn_outputs_decoded_ins, prev,
    hidden_states

VARIABLES
    \* ---- one call of copy_net_loop, for one example of the batch
    c_pc, generate_logits, slice_indices, copy_logits, all_vocabulary_logits,
    logits, prev_word_index, greedy_word_index

VARIABLES
    \* ---- one call of sampling_loop, for one batch at one timestep
    s_pc, sampling_decay, learning_step, s_i, threshold, random_uniform,
    condition, selected

svars == <<s_pc, sampling_decay, learning_step, s_i, threshold,
           random_uniform, condition, selected>>

cvars == <<c_pc, generate_logits, slice_indices, copy_logits,
           all_vocabulary_logits, logits, prev_word_index, greedy_word_index>>

dconfig == <<max_out_len, encoders, rnn_size, scheduled_sampling, copy_net,
             use_attention, dropout_placeholder, batch_size>>

dvars == <<dconfig, d_pc, encoded, tf_variables, gt_inputs, targets,
           weights_ins, embedded_gt_inputs, rnn_outputs_gt_ins,
           rnn_outputs_decoded_ins, prev, hidden_states>>

tvars == <<save_n_best_vars, minimize_metric, logging_period,
           validation_period, log_directory, test_datasets,
           pc, i, batch_iter, batch_n, step, saved_scores, best_score,
           best_score_epoch, best_score_batch_no, this_score, worst_index,
           worst_score, summary_str, tb_writer,
           params, files, link_best_vars,
           history, interrupted, restores, tested, writes, relinks, pre,
           trainer_runs, train_logs>>

vars == <<tvars, dvars, cvars, svars>>

config == <<save_n_best_vars, minimize_metric, logging_period,
            validation_period, log_directory>>

ghosts == <<history, interrupted, restores, tested, writes, relinks, pre,
            trainer_runs, train_logs>>

\* ------------------------------------------------------- pure functions

\* mutants of is_better: the branches exchanged; a non-strict comparison
is_better_swapped(score1, score2, minimize) ==
    IF minimize THEN score1 > score2 ELSE score1 < score2

is_better_or_equal(score1, score2, minimize) ==
    IF minimize THEN score1 <= score2 ELSE score1 >= score2

is_better(score1, score2, minimize) ==
    IF minimize THEN score1 < score2 ELSE score1 > score2

\* np.argmax / np.argmin: the first index holding the extreme value
argmax(scores) ==
    CHOOSE k \in DOMAIN scores :
        /\ \A j \in DOMAIN scores : scores[j] <= scores[k]
        /\ \A j \in DOMAIN scores : j < k => scores[j] < scores[k]

argmin(scores) ==
    CHOOSE k \in DOMAIN scores :
        /\ \A j \in DOMAIN scores : scores[j] >= scores[k]
        /\ \A j \in DOMAIN scores : j < k => scores[j] > scores[k]

\* mutants of argworst: the best entry instead of the worst; the policy
\* ignored
argworst_reversed(scores, minimize) ==
    IF minimize THEN argmin(scores) ELSE argmax(scores)

argworst_ignores_policy(scores, minimize) == argmin(scores)

argworst(scores, minimize) ==
    IF minimize THEN argmax(scores) ELSE argmin(scores)

\* mutant of too_few: zero slots accepted
too_few_negative(n) == n < 0

too_few(n) == n < 1

initial_score(minimize) == IF minimize THEN Inf ELSE -Inf

is_logging_step(s, period) == s % period = period - 1

\* mutant of is_validation_step: the phase of the window taken as 1
is_validation_step_at_one(s, period) == s % period = 1

is_validation_step(s, period) == s % period = period - 1

\* ----------------------------------------------- the decoder's functions

\* prev of rnn_decoder before the first step
NoOutput == [step |-> -1, input |-> [src |-> "none", pos |-> -1, fn |-> "none"]]

RECURSIVE SumWidths(_)
SumWidths(ws) == IF ws = << >> THEN 0 ELSE Head(ws) + SumWidths(Tail(ws))

\* mutant of fuse_encoded: the shortcut for one encoder of the right width
\* left out
fuse_encoded_always_projects(encs, size) ==
    IF Len(encs) >= 1
    THEN [kind |-> "projection", width |-> size]
    ELSE [kind |-> "zeros", width |-> size]

\* lines 100-114: the fused encoder output and the variables it creates
fuse_encoded(encs, size) ==
    IF Len(encs) = 1 /\ size = encs[1]
    THEN [kind |-> "identity", width |-> encs[1]]
    ELSE IF Len(encs) >= 1
         THEN [kind |-> "projection", width |-> size]
         ELSE [kind |-> "zeros", width |-> size]

fuse_variables(encs, size) ==
    IF Len(encs) = 1 /\ size = encs[1]
    THEN {}
    ELSE IF Len(encs) >= 1
         THEN {<<"project_encoders", SumWidths(encs), size>>,
               <<"proj_bias", size, 1>>}
         ELSE {}

\* mutant of num_placeholders: one placeholder fewer
num_placeholders_short(len) == len + 1

\* number of ground-truth input placeholders: range(max_out_len + 2)
num_placeholders(len) == len + 2

\* mutant of embed_gt_inputs: the last placeholder embedded too
embed_all_gt_inputs(gt) ==
    [k \in 1..Len(gt) |-> [src |-> "gt", pos |-> gt[k], fn |-> "none"]]

\* lines 149-150: the embeddings of self.gt_inputs[:-1]
embed_gt_inputs(gt) ==
    [k \in 1..(Len(gt) - 1) |-> [src |-> "gt", pos |-> gt[k], fn |-> "none"]]

\* lines 156-168 and 196-227: the step function fed from the previous output
loop(prev_state, pos, copy) ==
    [src |-> "loop", pos |-> prev_state.step,
     fn |-> IF copy THEN "copy" ELSE "greedy"]

\* lines 229-238: ground truth or the step function's output, by a random draw
sampling_loop(prev_state, pos, copy) ==
    [src |-> "sampled", pos |-> pos,
     fn |-> IF copy THEN "copy" ELSE "greedy"]

\* mutant of decoder_input: the loop function ignored
decoder_input_always_gt(inputs, n, previous, loop_function, copy) ==
    inputs[n]

\* one step of rnn_decoder / attention_decoder: the input is the loop
\* function's output once there is a previous output, and the ground-truth
\* embedding otherwise; the cell gives one output per input
decoder_input(inputs, n, previous, loop_function, copy) ==
    IF loop_function # "none" /\ previous # NoOutput
    THEN IF loop_function = "sampling_loop"
         THEN sampling_loop(previous, n - 1, copy)
         ELSE loop(previous, n - 1, copy)
    ELSE inputs[n]

\* ------------------------------------ the copy-augmented step function

RECURSIVE Pow2(_)
Pow2(n) == IF n <= 0 THEN 1 ELSE 2 * Pow2(n - 1)

MinLogit == CHOOSE x \in Logits : \A y \in Logits : x <= y
MaxLogit == CHOOSE x \in Logits : \A y \in Logits : x >= y
LogitSpan == MaxLogit - MinLogit

\* the value tf.sparse_to_dense gives the entries that no index names
default_value == 0

\* lines 211-214: one row of the vocabulary-shaped matrix of a source
\* position: the copy logit at the index of the source word
sparse_to_dense(index, value) ==
    [v \in Vocabulary |-> IF v = index THEN value ELSE default_value]

RowMax(matrices, v) ==
    CHOOSE x \in {matrices[m][v] : m \in DOMAIN matrices} :
        \A m \in DOMAIN matrices : matrices[m][v] <= x

RECURSIVE SumExp(_, _, _)
SumExp(matrices, v, maximum) ==
    IF matrices = << >> THEN 0
    ELSE Pow2(LogitSpan + Head(matrices)[v] - maximum)
         + SumExp(Tail(matrices), v, maximum)

\* lines 183-194: maxima + log(sum(exp(m - maxima))), entry by entry.  The
\* logarithm is kept unevaluated: an entry is the pair of its maximum and of
\* the sum of the powers, the sum scaled by 2^LogitSpan to stay an integer.
log_sum_exp(matrices) ==
    [v \in Vocabulary |->
        [maxima |-> RowMax(matrices, v),
         sum |-> SumExp(matrices, v, RowMax(matrices, v))]]

\* 2^(x + LogitSpan - MinLogit) for an entry x of log_sum_exp and for a plain
\* logit g: two values are equal, or ordered, as these integers are
ExpOfEntry(e) == e.sum * Pow2(e.maxima - MinLogit)
ExpOfLogit(g) == Pow2(LogitSpan + g - MinLogit)

\* tf.argmax over one row: an index of a largest entry (which one, when
\* several are largest, is not specified)
ArgMaxEntries(row) ==
    {v \in Vocabulary :
        \A u \in Vocabulary : ExpOfEntry(row[u]) <= ExpOfEntry(row[v])}

ArgMaxLogits(row) ==
    {v \in Vocabulary : \A u \in Vocabulary : row[u] <= row[v]}

\* ---------------------------------------------------------------- Init

\* the locals, the file system and the history before training_loop runs
TrainingNotStarted ==
    /\ test_datasets = None
    /\ pc = "start"
    /\ i = -1
    /\ batch_iter = 0
    /\ batch_n = -1
    /\ step = 0
    /\ saved_scores = << >>
    /\ best_score = 0
    /\ best_score_epoch = 0
    /\ best_score_batch_no = 0
    /\ this_score = 0
    /\ worst_index = 0
    /\ worst_score = 0
    /\ summary_str = FALSE
    /\ tb_writer = FALSE
    /\ params = 0
    /\ files = [k \in 1..save_n_best_vars |-> NoFile]
    /\ link_best_vars \in {NoLink, StaleLink}
    /\ history = << >>
    /\ interrupted = "no"
    /\ restores = 0
    /\ tested = << >>
    /\ writes = << >>
    /\ relinks = << >>
    /\ pre = [saved_scores |-> << >>, files |-> << >>, link |-> NoLink]
    /\ trainer_runs = 0
    /\ train_logs = << >>

\* the graph before Decoder.__init__ has run
NothingBuilt ==
    /\ d_pc = "fusion"
    /\ encoded = [kind |-> "none", width |-> 0]
    /\ tf_variables = {}
    /\ gt_inputs = << >>
    /\ targets = << >>
    /\ weights_ins = << >>
    /\ embedded_gt_inputs = << >>
    /\ rnn_outputs_gt_ins = << >>
    /\ rnn_outputs_decoded_ins = << >>
    /\ prev = NoOutput
    /\ hidden_states = << >>

\* the copy step before copy_net_loop is called
CopyNotRun ==
    /\ c_pc = "generate"
    /\ all_vocabulary_logits = << >>
    /\ logits = << >>
    /\ prev_word_index = 0
    /\ greedy_word_index = 0

CopyUnused ==
    /\ generate_logits = [v \in Vocabulary |-> 0]
    /\ slice_indices = << >>
    /\ copy_logits = << >>
    /\ CopyNotRun

\* the training driver, with a decoder that plays no part in it
\* sampling_loop before it is called
SamplingNotRun ==
    /\ s_pc = "threshold"
    /\ threshold = [num |-> 0, den |-> 1]
    /\ random_uniform = << >>
    /\ condition = << >>
    /\ selected = << >>

SamplingUnused ==
    /\ sampling_decay = 1
    /\ learning_step = 0
    /\ s_i = 1
    /\ SamplingNotRun

Init ==
    /\ save_n_best_vars \in 0..MaxN
    /\ minimize_metric \in BOOLEAN
    /\ logging_period \in LoggingPeriods
    /\ validation_period \in ValidationPeriods
    /\ log_directory \in BOOLEAN
    /\ TrainingNotStarted
    /\ max_out_len = 0
    /\ encoders = << >>
    /\ rnn_size = 2
    /\ scheduled_sampling = FALSE
    /\ copy_net = FALSE
    /\ use_attention = FALSE
    /\ dropout_placeholder = FALSE
    /\ batch_size = 1
    /\ NothingBuilt
    /\ CopyUnused
    /\ SamplingUnused

\* the construction of a decoder, with a training driver that never starts
DecoderInit ==
    /\ max_out_len \in 0..MaxLen
    /\ encoders \in UNION {[1..n -> Widths] : n \in 0..MaxEncoders}
    /\ rnn_size \in Widths
    /\ scheduled_sampling \in BOOLEAN
    /\ copy_net \in BOOLEAN
    /\ use_attention \in BOOLEAN
    /\ dropout_placeholder \in BOOLEAN
    /\ batch_size \in 1..MaxBatch
    /\ NothingBuilt
    /\ save_n_best_vars = 1
    /\ minimize_metric = FALSE
    /\ logging_period = 1
    /\ validation_period = 1
    /\ log_directory = FALSE
    /\ TrainingNotStarted
    /\ CopyUnused
    /\ SamplingUnused

\* ------------------------------------------------------------- actions

\* lines 106-143: the configuration check, the ledger, the first snapshot
\* and the pointer
Start ==
    /\ pc = "start"
    /\ IF too_few(save_n_best_vars)
       THEN /\ pc' = "failed"
            /\ UNCHANGED <<saved_scores, best_score, files, link_best_vars,
                           tb_writer>>
       ELSE /\ saved_scores' = [k \in 1..save_n_best_vars |->
                                   initial_score(minimize_metric)]
            /\ best_score' = initial_score(minimize_metric)
            /\ files' = [files EXCEPT ![1] = params]
            /\ link_best_vars' = 1
            /\ tb_writer' = log_directory
            /\ pc' = "epoch"
    /\ UNCHANGED <<svars, cvars, dvars, config, test_datasets,
                   i, batch_iter, batch_n, step, best_score_epoch,
                   best_score_batch_no, this_score, worst_index, worst_score,
                   summary_str, params, ghosts>>

\* lines 147-152: the next epoch, or the end of the loop
EpochStart ==
    /\ pc = "epoch"
    /\ IF i + 1 < Epochs
       THEN /\ i' = i + 1
            /\ batch_iter' = 0
            /\ pc' = "batch"
       ELSE /\ pc' = "restore"
            /\ UNCHANGED <<i, batch_iter>>
    /\ UNCHANGED <<svars, cvars, dvars, config, test_datasets,
                   batch_n, step, saved_scores, best_score,
                   best_score_epoch, best_score_batch_no, this_score,
                   worst_index, worst_score, summary_str, tb_writer, params,
                   files, link_best_vars, ghosts>>

\* lines 154-158: the next batch of the epoch
BatchStart ==
    /\ pc = "batch"
    /\ IF batch_iter < BatchesPerEpoch
       THEN /\ batch_n' = batch_iter
            /\ batch_iter' = batch_iter + 1
            /\ step' = step + 1
            /\ pc' = "train"
       ELSE /\ pc' = "epoch"
            /\ UNCHANGED <<batch_n, batch_iter, step>>
    /\ UNCHANGED <<svars, cvars, dvars, config, test_datasets,
                   i, saved_scores, best_score, best_score_epoch,
                   best_score_batch_no, this_score, worst_index, worst_score,
                   summary_str, tb_writer, params, files, link_best_vars,
                   ghosts>>

\* lines 159-170: one optimization step, with the training-set metrics on a
\* logging step
TrainerRun ==
    /\ pc = "train"
    /\ params' = params + 1
    /\ trainer_runs' = trainer_runs + 1
    /\ IF is_logging_step(step, logging_period)
       THEN /\ summary_str' = TRUE
            /\ IF tb_writer
               THEN /\ train_logs' = Append(train_logs, step)
                    /\ pc' = IF is_validation_step(step, validation_period)
                             THEN "validate" ELSE "batch"
               ELSE /\ pc' = "crashed"
                    /\ UNCHANGED train_logs
       ELSE /\ pc' = IF is_validation_step(step, validation_period)
                     THEN "validate" ELSE "batch"
            /\ UNCHANGED <<summary_str, train_logs>>
    /\ UNCHANGED <<svars, cvars, dvars, config, test_datasets,
                   i, batch_iter, batch_n, step, saved_scores,
                   best_score, best_score_epoch, best_score_batch_no,
                   this_score, worst_index, worst_score, tb_writer, files,
                   link_best_vars, history, interrupted, restores, tested,
                   writes, relinks, pre>>

\* lines 171-176: evaluation on the validation set
RunValidation ==
    /\ pc = "validate"
    /\ \E s \in Scores :
          /\ this_score' = s
          /\ history' = Append(history, [params |-> params, score |-> s])
    /\ pre' = [saved_scores |-> saved_scores, files |-> files,
               link |-> link_best_vars]
    /\ pc' = "best"
    /\ UNCHANGED <<svars, cvars, dvars, config, test_datasets,
                   i, batch_iter, batch_n, step, saved_scores,
                   best_score, best_score_epoch, best_score_batch_no,
                   worst_index, worst_score, summary_str, tb_writer, params,
                   files, link_best_vars, interrupted, restores, tested,
                   writes, relinks, trainer_runs, train_logs>>

\* lines 190-193
UpdateBest ==
    /\ pc = "best"
    /\ IF is_better(this_score, best_score, minimize_metric)
       THEN /\ best_score' = this_score
            /\ best_score_epoch' = i + 1
            /\ best_score_batch_no' = batch_n
       ELSE UNCHANGED <<best_score, best_score_epoch, best_score_batch_no>>
    /\ pc' = "worst"
    /\ UNCHANGED <<svars, cvars, dvars, config, test_datasets,
                   i, batch_iter, batch_n, step, saved_scores,
                   this_score, worst_index, worst_score, summary_str,
                   tb_writer, params, files, link_best_vars, ghosts>>

\* lines 195-198
FindWorst ==
    /\ pc = "worst"
    /\ worst_index' = argworst(saved_scores, minimize_metric)
    /\ worst_score' = saved_scores[worst_index']
    /\ pc' = IF is_better(this_score, worst_score', minimize_metric)
             THEN "save" ELSE "vlog"
    /\ UNCHANGED <<svars, cvars, dvars, config, test_datasets,
                   i, batch_iter, batch_n, step, saved_scores,
                   best_score, best_score_epoch, best_score_batch_no,
                   this_score, summary_str, tb_writer, params, files,
                   link_best_vars, ghosts>>

\* lines 200-201
SaveVars ==
    /\ pc = "save"
    /\ files' = [files EXCEPT ![worst_index] = params]
    /\ writes' = Append(writes, Len(history))
    /\ pc' = "score"
    /\ UNCHANGED <<svars, cvars, dvars, config, test_datasets,
                   i, batch_iter, batch_n, step, saved_scores,
                   best_score, best_score_epoch, best_score_batch_no,
                   this_score, worst_index, worst_score, summary_str,
                   tb_writer, params, link_best_vars, history, interrupted,
                   restores, tested, relinks, pre, trainer_runs, train_logs>>

\* lines 202-206
UpdateLedger ==
    /\ pc = "score"
    /\ saved_scores' = [saved_scores EXCEPT ![worst_index] = this_score]
    /\ pc' = IF best_score = this_score THEN "unlink" ELSE "vlog"
    /\ UNCHANGED <<svars, cvars, dvars, config, test_datasets,
                   i, batch_iter, batch_n, step, best_score,
                   best_score_epoch, best_score_batch_no, this_score,
                   worst_index, worst_score, summary_str, tb_writer, params,
                   files, link_best_vars, ghosts>>

\* line 207
Unlink ==
    /\ pc = "unlink"
    /\ link_best_vars' = NoLink
    /\ pc' = "symlink"
    /\ UNCHANGED <<svars, cvars, dvars, config, test_datasets,
                   i, batch_iter, batch_n, step, saved_scores,
                   best_score, best_score_epoch, best_score_batch_no,
                   this_score, worst_index, worst_score, summary_str,
                   tb_writer, params, files, ghosts>>

\* line 208
Symlink ==
    /\ pc = "symlink"
    /\ link_best_vars' = worst_index
    /\ relinks' = Append(relinks, Len(history))
    /\ pc' = "vlog"
    /\ UNCHANGED <<svars, cvars, dvars, config, test_datasets,
                   i, batch_iter, batch_n, step, saved_scores,
                   best_score, best_score_epoch, best_score_batch_no,
                   this_score, worst_index, worst_score, summary_str,
                   tb_writer, params, files, history, interrupted, restores,
                   tested, writes, pre, trainer_runs, train_logs>>

\* lines 212-266: the validation report reads tb_writer and summary_str
LogValidation ==
    /\ pc = "vlog"
    /\ pc' = IF tb_writer /\ summary_str THEN "batch" ELSE "crashed"
    /\ UNCHANGED <<svars, cvars, dvars, config, test_datasets,
                   i, batch_iter, batch_n, step, saved_scores,
                   best_score, best_score_epoch, best_score_batch_no,
                   this_score, worst_index, worst_score, summary_str,
                   tb_writer, params, files, link_best_vars, ghosts>>

\* the positions inside the try block of lines 146-266
TryPcs == {"epoch", "batch", "train", "validate", "best", "worst", "save",
           "score", "unlink", "symlink", "vlog"}

\* lines 268-269
KeyboardInterrupt ==
    /\ pc \in TryPcs
    /\ interrupted' = pc
    /\ pc' = "restore"
    /\ UNCHANGED <<svars, cvars, dvars, config, test_datasets,
                   i, batch_iter, batch_n, step, saved_scores,
                   best_score, best_score_epoch, best_score_batch_no,
                   this_score, worst_index, worst_score, summary_str,
                   tb_writer, params, files, link_best_vars, history,
                   restores, tested, writes, relinks, pre, trainer_runs,
                   train_logs>>

\* lines 271-275
Restore ==
    /\ pc = "restore"
    /\ IF link_best_vars # NoLink
       THEN /\ params' = files[link_best_vars]
            /\ restores' = restores + 1
       ELSE UNCHANGED <<params, restores>>
    /\ pc' = "test"
    /\ UNCHANGED <<svars, cvars, dvars, config, test_datasets,
                   i, batch_iter, batch_n, step, saved_scores,
                   best_score, best_score_epoch, best_score_batch_no,
                   this_score, worst_index, worst_score, summary_str,
                   tb_writer, files, link_best_vars, history, interrupted,
                   tested, writes, relinks, pre, trainer_runs, train_logs>>

\* lines 277-284: the test sets, in order; test_datasets is read here for the
\* first time, and iterating None (the default) raises TypeError
TestEval ==
    /\ pc = "test"
    /\ \E td \in TestConfigs :
          /\ test_datasets' = td
          /\ IF td = None
             THEN /\ pc' = "crashed"
                  /\ UNCHANGED tested
             ELSE /\ tested' = [k \in 1..td |-> k]
                  /\ pc' = "done"
    /\ UNCHANGED <<svars, cvars, dvars, config, i, batch_iter, batch_n,
                   step, saved_scores,
                   best_score, best_score_epoch, best_score_batch_no,
                   this_score, worst_index, worst_score, summary_str,
                   tb_writer, params, files, link_best_vars, history,
                   interrupted, restores, writes, relinks, pre, trainer_runs,
                   train_logs>>

\* --------------------------------------------- Decoder.__init__, in order

TrainingIdle == UNCHANGED <<tvars, cvars, svars>>

\* lines 100-114
FuseEncoders ==
    /\ d_pc = "fusion"
    /\ encoded' = fuse_encoded(encoders, rnn_size)
    /\ tf_variables' = fuse_variables(encoders, rnn_size)
    /\ d_pc' = "placeholders"
    /\ UNCHANGED <<dconfig, gt_inputs, targets, weights_ins,
                   embedded_gt_inputs, rnn_outputs_gt_ins,
                   rnn_outputs_decoded_ins, prev, hidden_states>>
    /\ TrainingIdle

\* lines 120-127: one placeholder per turn of the loop, then the targets
AddPlaceholder ==
    /\ d_pc = "placeholders"
    /\ IF Len(gt_inputs) < num_placeholders(max_out_len)
       THEN /\ gt_inputs' = Append(gt_inputs, Len(gt_inputs))
            /\ UNCHANGED <<targets, d_pc>>
       ELSE /\ targets' = IF gt_inputs = << >> THEN << >> ELSE Tail(gt_inputs)
            /\ d_pc' = "weights"
            /\ UNCHANGED gt_inputs
    /\ UNCHANGED <<dconfig, encoded, tf_variables, weights_ins,
                   embedded_gt_inputs, rnn_outputs_gt_ins,
                   rnn_outputs_decoded_ins, prev, hidden_states>>
    /\ TrainingIdle

\* lines 129-132: one weight placeholder per target
AddWeight ==
    /\ d_pc = "weights"
    /\ IF Len(weights_ins) < Len(targets)
       THEN /\ weights_ins' = Append(weights_ins, Len(weights_ins))
            /\ UNCHANGED d_pc
       ELSE /\ d_pc' = "embed"
            /\ UNCHANGED weights_ins
    /\ UNCHANGED <<dconfig, encoded, tf_variables, gt_inputs, targets,
                   embedded_gt_inputs, rnn_outputs_gt_ins,
                   rnn_outputs_decoded_ins, prev, hidden_states>>
    /\ TrainingIdle

\* lines 134-154: the output projection, the embeddings, the embedded inputs
EmbedInputs ==
    /\ d_pc = "embed"
    /\ embedded_gt_inputs' = embed_gt_inputs(gt_inputs)
    /\ tf_variables' = tf_variables \cup
          {<<"state_to_word_W", rnn_size, 0>>, <<"state_to_word_b", 0, 1>>,
           <<"word_embeddings", 0, 0>>}
    /\ d_pc' = "attention"
    /\ UNCHANGED <<dconfig, encoded, gt_inputs, targets, weights_ins,
                   rnn_outputs_gt_ins, rnn_outputs_decoded_ins, prev,
                   hidden_states>>
    /\ TrainingIdle

\* lines 245-256: attention_tensors_dropped is bound only under dropout, and
\* the attention decoder reads it
PrepareAttention ==
    /\ d_pc = "attention"
    /\ d_pc' = IF use_attention /\ ~dropout_placeholder
               THEN "crashed" ELSE "gt_pass"
    /\ prev' = NoOutput
    /\ UNCHANGED <<dconfig, encoded, tf_variables, gt_inputs, targets,
                   weights_ins, embedded_gt_inputs, rnn_outputs_gt_ins,
                   rnn_outputs_decoded_ins, hidden_states>>
    /\ TrainingIdle

gt_loop_function == IF scheduled_sampling THEN "sampling_loop" ELSE "none"

\* lines 255-265: the pass over the ground-truth inputs, one step per turn
GtPassStep ==
    /\ d_pc = "gt_pass"
    /\ IF Len(rnn_outputs_gt_ins) < Len(embedded_gt_inputs)
       THEN LET n == Len(rnn_outputs_gt_ins) + 1
                out == [step |-> n - 1,
                        input |-> decoder_input(embedded_gt_inputs, n, prev,
                                                gt_loop_function, copy_net)]
            IN /\ rnn_outputs_gt_ins' = Append(rnn_outputs_gt_ins, out)
               /\ prev' = IF gt_loop_function # "none" THEN out ELSE prev
               /\ UNCHANGED d_pc
       ELSE /\ d_pc' = "decoded_pass"
            /\ prev' = NoOutput
            /\ UNCHANGED rnn_outputs_gt_ins
    /\ UNCHANGED <<dconfig, encoded, tf_variables, gt_inputs, targets,
                   weights_ins, embedded_gt_inputs, rnn_outputs_decoded_ins,
                   hidden_states>>
    /\ TrainingIdle

\* lines 267-279: the pass that feeds the decoder its own outputs
DecodedPassStep ==
    /\ d_pc = "decoded_pass"
    /\ IF Len(rnn_outputs_decoded_ins) < Len(embedded_gt_inputs)
       THEN LET n == Len(rnn_outputs_decoded_ins) + 1
                out == [step |-> n - 1,
                        input |-> decoder_input(embedded_gt_inputs, n, prev,
                                                "loop", copy_net)]
            IN /\ rnn_outputs_decoded_ins' =
                      Append(rnn_outputs_decoded_ins, out)
               /\ prev' = out
               /\ UNCHANGED <<d_pc, hidden_states>>
       ELSE /\ hidden_states' = rnn_outputs_decoded_ins
            /\ d_pc' = "built"
            /\ UNCHANGED <<rnn_outputs_decoded_ins, prev>>
    /\ UNCHANGED <<dconfig, encoded, tf_variables, gt_inputs, targets,
                   weights_ins, embedded_gt_inputs, rnn_outputs_gt_ins>>
    /\ TrainingIdle

DecoderNext ==
    \/ FuseEncoders
    \/ AddPlaceholder
    \/ AddWeight
    \/ EmbedInputs
    \/ PrepareAttention
    \/ GtPassStep
    \/ DecodedPassStep

DecoderSpec == DecoderInit /\ [][DecoderNext]_vars

\* ------------------------------------------------ copy_net_loop, in order

\* one decoder that is not being built, one training run that never starts
DecoderUnbuilt ==
    /\ max_out_len = 0
    /\ encoders = << >>
    /\ rnn_size = 2
    /\ scheduled_sampling = FALSE
    /\ copy_net = TRUE
    /\ use_attention = FALSE
    /\ dropout_placeholder = FALSE
    /\ batch_size = 1
    /\ NothingBuilt

TrainingUnused ==
    /\ save_n_best_vars = 1
    /\ minimize_metric = FALSE
    /\ logging_period = 1
    /\ validation_period = 1
    /\ log_directory = FALSE
    /\ TrainingNotStarted

\* the inputs of one call: the generation logits of the example, and for
\* every source position the vocabulary index of its word and its copy logit
CopyInit ==
    /\ generate_logits \in [Vocabulary -> Logits]
    /\ \E k \in 0..MaxSrc :
          /\ slice_indices \in [1..k -> Vocabulary]
          /\ copy_logits \in [1..k -> Logits]
    /\ CopyNotRun
    /\ DecoderUnbuilt
    /\ TrainingUnused
    /\ SamplingUnused

\* lines 200-205, and line 162 of the greedy loop on the same logits
GenerateLogits ==
    /\ c_pc = "generate"
    /\ all_vocabulary_logits' = <<generate_logits>>
    /\ \E w \in ArgMaxLogits(generate_logits) : greedy_word_index' = w
    /\ c_pc' = "scatter"
    /\ UNCHANGED <<generate_logits, slice_indices, copy_logits, logits,
                   prev_word_index>>
    /\ UNCHANGED <<tvars, dvars, svars>>

\* lines 206-215: one source position per turn of the loop
ScatterPosition ==
    /\ c_pc = "scatter"
    /\ IF Len(all_vocabulary_logits) - 1 < Len(slice_indices)
       THEN LET p == Len(all_vocabulary_logits)
            IN /\ all_vocabulary_logits' =
                      Append(all_vocabulary_logits,
                             sparse_to_dense(slice_indices[p], copy_logits[p]))
               /\ UNCHANGED c_pc
       ELSE /\ c_pc' = "combine"
            /\ UNCHANGED all_vocabulary_logits
    /\ UNCHANGED <<generate_logits, slice_indices, copy_logits, logits,
                   prev_word_index, greedy_word_index>>
    /\ UNCHANGED <<tvars, dvars, svars>>

\* line 217
CombineLogits ==
    /\ c_pc = "combine"
    /\ logits' = log_sum_exp(all_vocabulary_logits)
    /\ c_pc' = "argmax"
    /\ UNCHANGED <<generate_logits, slice_indices, copy_logits,
                   all_vocabulary_logits, prev_word_index, greedy_word_index>>
    /\ UNCHANGED <<tvars, dvars, svars>>

\* lines 219-221
PickWord ==
    /\ c_pc = "argmax"
    /\ \E w \in ArgMaxEntries(logits) : prev_word_index' = w
    /\ c_pc' = "embedded"
    /\ UNCHANGED <<generate_logits, slice_indices, copy_logits,
                   all_vocabulary_logits, logits, greedy_word_index>>
    /\ UNCHANGED <<tvars, dvars, svars>>

CopyNext ==
    \/ GenerateLogits
    \/ ScatterPosition
    \/ CombineLogits
    \/ PickWord

CopySpec == CopyInit /\ [][CopyNext]_vars

\* ------------------------------------------- the scheduled sampling step

\* tf.exp in thousandths, of an exponent given in halves (learning_step / k
\* with k in Decays is a whole number of halves)
exp(halves) == <<1000, 1649, 2718, 4482, 7389>>[halves + 1]

\* line 237, tf.less_equal of one draw (in thousandths) and the threshold
less_equal(draw, thr) == draw * thr.den <= 1000 * thr.num

\* line 238, tf.select with a condition of the shape of its operands
select(cond, t, e) ==
    [b \in DOMAIN cond |->
        [c \in DOMAIN cond[b] |-> IF cond[b][c] THEN t[b][c] ELSE e[b][c]]]

\* embedded_gt_inputs[i] and loop(prev_state, i): one row per example, one
\* entry per component
gt_embedding(pos, batch) ==
    [b \in 1..batch |->
        [c \in Components |-> [src |-> "gt", pos |-> pos, row |-> b,
                                col |-> c]]]

loop_embedding(pos, batch) ==
    [b \in 1..batch |->
        [c \in Components |-> [src |-> "loop", pos |-> pos - 1, row |-> b,
                                col |-> c]]]

\* one call of sampling_loop(prev_state, i) on a batch, with a decoder and
\* a training driver that never start
SamplingInit ==
    /\ sampling_decay \in Decays
    /\ learning_step \in LearningSteps
    /\ s_i \in 1..(MaxLen + 1)
    /\ SamplingNotRun
    /\ max_out_len = MaxLen
    /\ encoders = << >>
    /\ rnn_size = 2
    /\ scheduled_sampling = TRUE
    /\ copy_net = FALSE
    /\ use_attention = FALSE
    /\ dropout_placeholder = FALSE
    /\ batch_size \in 1..MaxBatch
    /\ NothingBuilt
    /\ TrainingUnused
    /\ CopyUnused

\* lines 235-236
ComputeThreshold ==
    /\ s_pc = "threshold"
    /\ threshold' =
          [num |-> 1000 * sampling_decay,
           den |-> 1000 * sampling_decay
                   + exp((2 * learning_step) \div sampling_decay)]
    /\ s_pc' = "condition"
    /\ UNCHANGED <<sampling_decay, learning_step, s_i, random_uniform,
                   condition, selected>>
    /\ UNCHANGED <<tvars, dvars, cvars>>

\* line 237: one draw per entry of tf.shape(embedded_gt_inputs[0])
DrawCondition ==
    /\ s_pc = "condition"
    /\ \E r \in [1..batch_size -> [Components -> Draws]] :
          /\ random_uniform' = r
          /\ condition' =
                [b \in 1..batch_size |->
                    [c \in Components |-> less_equal(r[b][c], threshold)]]
    /\ s_pc' = "select"
    /\ UNCHANGED <<sampling_decay, learning_step, s_i, threshold, selected>>
    /\ UNCHANGED <<tvars, dvars, cvars>>

\* line 238
Select ==
    /\ s_pc = "select"
    /\ selected' = select(condition, gt_embedding(s_i, batch_size),
                          loop_embedding(s_i, batch_size))
    /\ s_pc' = "selected"
    /\ UNCHANGED <<sampling_decay, learning_step, s_i, threshold,
                   random_uniform, condition>>
    /\ UNCHANGED <<tvars, dvars, cvars>>

SamplingNext ==
    \/ ComputeThreshold
    \/ DrawCondition
    \/ Select

SamplingSpec == SamplingInit /\ [][SamplingNext]_vars

Next ==
    \/ Start
    \/ EpochStart
    \/ BatchStart
    \/ TrainerRun
    \/ RunValidation
    \/ UpdateBest
    \/ FindWorst
    \/ SaveVars
    \/ UpdateLedger
    \/ Unlink
    \/ Symlink
    \/ LogValidation
    \/ KeyboardInterrupt
    \/ Restore
    \/ TestEval

Spec == Init /\ [][Next]_vars

\* ------------------------------------------- vocabulary of the properties

Pcs == {"start", "failed", "crashed", "restore", "test", "done"} \cup TryPcs

\* positions between the evaluation of a validation score and the end of the
\* ledger and pointer update that belongs to it
InEvent == {"best", "worst", "save", "score", "unlink", "symlink"}

\* no validation event is half done, neither in progress nor abandoned
Settled ==
    /\ pc \notin InEvent \cup {"start", "failed"}
    /\ interrupted \notin InEvent

Min(a, b) == IF a < b THEN a ELSE b

\* the order of the policy, written out independently of the program's helper
Better(a, b) == IF minimize_metric THEN a < b ELSE a > b

Placeholder == IF minimize_metric THEN Inf ELSE -Inf

Slots == 1..save_n_best_vars

Retained == {j \in DOMAIN saved_scores : saved_scores[j] # Placeholder}

SeenCount(x) == Cardinality({k \in DOMAIN history : history[k].score = x})

RetainedCount(x) == Cardinality({j \in Retained : saved_scores[j] = x})

\* C1: with N >= 1, after any sequence of v validation events the retained
\* scores (placeholders ignored) are exactly the multiset of the min(N, v)
\* best scores seen: they are min(N, v) of the seen scores, and no seen score
\* that is not retained is strictly better than a retained one.
C1_LedgerHoldsNBest ==
    Settled =>
        /\ Cardinality(Retained) = Min(save_n_best_vars, Len(history))
        /\ \A x \in Scores : RetainedCount(x) <= SeenCount(x)
        /\ \A j \in Retained : saved_scores[j] \in Scores
        /\ \A x \in Scores, y \in Scores :
              (RetainedCount(x) < SeenCount(x) /\ RetainedCount(y) > 0)
                  => ~Better(x, y)

\* a third validation has evicted a score from a ledger of two
C1_Witness ==
    /\ pc = "batch"
    /\ save_n_best_vars = 2
    /\ Len(history) >= 3
    /\ Len(writes) >= 3
    /\ \E x \in Scores : RetainedCount(x) < SeenCount(x)

BestSeen ==
    CHOOSE x \in Scores :
        /\ SeenCount(x) > 0
        /\ \A k \in DOMAIN history : ~Better(history[k].score, x)

\* C2: after every validation event best_score is the best (max, or min when
\* minimizing) of all validation scores seen so far, and best_score never
\* moves to a worse value.
C2_BestScoreIsBestSeen ==
    /\ [](Settled /\ Len(history) > 0 => best_score = BestSeen)
    /\ [][pc # "start" => ~Better(best_score, best_score')]_vars

\* a later, worse score has left best_score alone
C2_Witness ==
    /\ pc = "batch"
    /\ Len(history) >= 2
    /\ best_score = history[1].score
    /\ best_score # history[2].score

\* the parameters p were validated with score x
ValidatedAs(p, x) ==
    \E k \in DOMAIN history : history[k].params = p /\ history[k].score = x

\* the parameters p are those of the validation that produced best_score (the
\* initial parameters while best_score is still the initial score)
ParamsOfBest(p) ==
    IF best_score = Placeholder THEN p = 0 ELSE ValidatedAs(p, best_score)

\* C3 (as claimed): at every batch boundary the best pointer names the slot
\* whose ledger score is best_score and whose file holds the parameters of
\* the validation that produced it; so the parameters restored at the end of
\* training are those of the best-scoring validation.
C3_PointerNamesBest ==
    /\ pc = "batch" =>
          /\ link_best_vars \in Slots
          /\ saved_scores[link_best_vars] = best_score
          /\ ParamsOfBest(files[link_best_vars])
    /\ pc \in {"test", "done"} => ParamsOfBest(params)

\* the part of C3 that the code keeps: the batch-boundary invariant
C3_AtBatchBoundary ==
    pc = "batch" =>
        /\ link_best_vars \in Slots
        /\ saved_scores[link_best_vars] = best_score
        /\ ParamsOfBest(files[link_best_vars])

\* the worst value of a ledger, read off without the program's helper
WorstValue(scores) ==
    CHOOSE x \in {scores[j] : j \in DOMAIN scores} :
        \A j \in DOMAIN scores : ~Better(x, scores[j])

HScores == [k \in DOMAIN history |-> history[k].score]

Scenario == <<2, 5, 3, 7>>
ScenarioBest == <<2, 5, 5, 7>>
ScenarioWrites == <<1, 2, 4>>

UpTo(seq, n) == SelectSeq(seq, LAMBDA e : e <= n)

\* C4: at a validation event a checkpoint file is written and a ledger entry
\* replaced iff the score strictly beats the worst ledger entry, in the
\* worst entry's slot; otherwise files, ledger and best pointer stay as they
\* were.  With N = 1, maximizing, the scores 0.2, 0.5, 0.3, 0.7 give the
\* best-ever scores 0.2, 0.5, 0.5, 0.7 and writes at validations 1, 2, 4.
C4_WriteIffBeatsWorst ==
    /\ pc = "vlog" =>
          LET w == WorstValue(pre.saved_scores) IN
          IF Better(this_score, w)
          THEN /\ pre.saved_scores[worst_index] = w
               /\ files = [pre.files EXCEPT ![worst_index] = params]
               /\ saved_scores =
                      [pre.saved_scores EXCEPT ![worst_index] = this_score]
               /\ Len(writes) > 0 /\ writes[Len(writes)] = Len(history)
          ELSE /\ files = pre.files
               /\ saved_scores = pre.saved_scores
               /\ link_best_vars = pre.link
               /\ \A k \in DOMAIN writes : writes[k] # Len(history)
    /\ \A n \in 1..Len(Scenario) :
          ( /\ pc = "vlog"
            /\ save_n_best_vars = 1
            /\ ~minimize_metric
            /\ HScores = SubSeq(Scenario, 1, n) )
          => /\ best_score = ScenarioBest[n]
             /\ writes = UpTo(ScenarioWrites, n)

\* the scenario has run to its fourth validation
C4_Witness ==
    /\ pc = "vlog"
    /\ save_n_best_vars = 1
    /\ ~minimize_metric
    /\ HScores = Scenario
    /\ writes = ScenarioWrites

\* C5 (as claimed): at a validation event whose score beats the worst
\* retained entry the best pointer is re-targeted iff the score is strictly
\* better than every earlier validation score.
C5_RelinkIffStrictlyBest ==
    ( /\ pc = "vlog"
      /\ Len(writes) > 0
      /\ writes[Len(writes)] = Len(history) )
    => ( (Len(relinks) > 0 /\ relinks[Len(relinks)] = Len(history))
         <=> \A k \in 1..(Len(history) - 1) :
                 Better(this_score, history[k].score) )

\* C6 (as claimed): once the loop has stopped, by exhausting the epochs or by
\* an interrupt, the parameters are restored from the best pointer exactly
\* once, then every test set is evaluated once, in order; nothing trains
\* or validates after the interrupt.
C6_RestoreThenTest ==
    /\ pc \in {"test", "done"} => restores = 1
    /\ pc = "done" => tested = [k \in 1..test_datasets |-> k]
    /\ pc = "restore" => restores = 0 /\ tested = << >>
    /\ interrupted # "no" => pc \in {"restore", "test", "done", "crashed"}

\* slot j's file holds the parameters that were validated with slot j's score
SlotMatches(j) ==
    IF saved_scores[j] = Placeholder
    THEN files[j] = NoFile \/ (j = 1 /\ files[j] = 0)
    ELSE ValidatedAs(files[j], saved_scores[j])

\* ledger, checkpoint files and pointer agree, and the pointer exists
Consistent ==
    /\ link_best_vars \in Slots
    /\ \A j \in Slots : ~Better(saved_scores[j], saved_scores[link_best_vars])
    /\ \A j \in Slots : SlotMatches(j)

\* C7 (as claimed): an interrupt never separates the checkpoint write, the
\* ledger update and the unlink / re-link of one validation event: after an
\* interrupt ledger, files and pointer are consistent and the pointer exists.
C7_InterruptLeavesConsistent ==
    interrupted # "no" => Consistent

\* what does hold: ledger, files and pointer agree at every batch boundary
ConsistentAtBatchBoundary == pc = "batch" => Consistent

\* C8: with save_n_best_vars < 1 training_loop fails at its start: no
\* checkpoint file is written, the best pointer is neither created nor
\* replaced, and no optimization step, validation or test evaluation runs.
C8_FailsFast ==
    save_n_best_vars < 1 =>
        /\ pc \in {"start", "failed"}
        /\ \A j \in DOMAIN files : files[j] = NoFile
        /\ link_best_vars \in {NoLink, StaleLink}
        /\ step = 0 /\ trainer_runs = 0 /\ params = 0
        /\ history = << >> /\ tested = << >> /\ restores = 0

\* the run with zero slots has failed and left an old pointer alone
C8_Witness ==
    /\ pc = "failed"
    /\ save_n_best_vars = 0
    /\ link_best_vars = StaleLink

\* C9: after any sequence of validation events the ledger holds exactly
\* min(N, number of validations) scores, and the entry selected as worst is
\* <= all others when maximizing (>= all others when minimizing).
C9_LedgerSizeAndWorst ==
    /\ Settled => Cardinality(Retained) = Min(save_n_best_vars, Len(history))
    /\ pc \in {"save", "score", "unlink", "symlink", "vlog"} =>
          /\ worst_index \in DOMAIN pre.saved_scores
          /\ \A j \in DOMAIN pre.saved_scores :
                IF minimize_metric
                THEN pre.saved_scores[worst_index] >= pre.saved_scores[j]
                ELSE pre.saved_scores[worst_index] <= pre.saved_scores[j]

\* minimizing, the larger of two different retained scores is being evicted
C9_Witness ==
    /\ pc = "save"
    /\ minimize_metric
    /\ save_n_best_vars = 2
    /\ pre.saved_scores[1] \in Scores
    /\ pre.saved_scores[2] \in Scores
    /\ pre.saved_scores[1] < pre.saved_scores[2]
    /\ worst_index = 2

\* C10: for max_out_len = L the decoder has L+2 ground-truth input
\* placeholders, L+1 targets and L+1 weight placeholders, and each of the two
\* passes gives exactly L+1 hidden states, whatever the batch size and the
\* number of encoders.
C10_DecoderLengths ==
    /\ d_pc \notin {"fusion", "placeholders"} =>
          /\ Len(gt_inputs) = max_out_len + 2
          /\ Len(targets) = max_out_len + 1
    /\ d_pc \notin {"fusion", "placeholders", "weights"} =>
          Len(weights_ins) = max_out_len + 1
    /\ d_pc \in {"decoded_pass", "built"} =>
          Len(rnn_outputs_gt_ins) = max_out_len + 1
    /\ d_pc = "built" =>
          /\ Len(rnn_outputs_decoded_ins) = max_out_len + 1
          /\ Len(hidden_states) = max_out_len + 1

\* a decoder of output length 2 over two encoders has been built
C10_Witness ==
    /\ d_pc = "built"
    /\ max_out_len = 2
    /\ Len(encoders) = 2
    /\ batch_size = 2
    /\ Len(hidden_states) = 3
    /\ Len(rnn_outputs_gt_ins) = 3

\* the vocabulary indices that some source position of the example maps to
MappedIndices == {slice_indices[p] : p \in DOMAIN slice_indices}

\* C11 (as claimed): at every vocabulary index that no source position maps
\* to, the log-sum-exp combined logit equals the generation logit; so when
\* no source position maps to any index, copy_net_loop has the same arg-max
\* words as the greedy loop.
C11_UnmappedKeepGeneration ==
    c_pc \in {"argmax", "embedded"} =>
        /\ \A v \in Vocabulary \ MappedIndices :
              ExpOfEntry(logits[v]) = ExpOfLogit(generate_logits[v])
        /\ MappedIndices = {} =>
              ArgMaxEntries(logits) = ArgMaxLogits(generate_logits)

\* what the code does at an index that no source position maps to: every
\* source position adds exp(0) to exp of the generation logit
UnmappedGetOnePerPosition ==
    c_pc \in {"argmax", "embedded"} =>
        \A v \in Vocabulary \ MappedIndices :
            ExpOfEntry(logits[v]) =
                ExpOfLogit(generate_logits[v])
                + Len(slice_indices) * ExpOfLogit(default_value)

ProjectionParams ==
    {t \in tf_variables : t[1] \in {"project_encoders", "proj_bias"}}

OneEncoderOfStateWidth == Len(encoders) = 1 /\ encoders[1] = rnn_size

\* C12: with no encoder the fused context is the zero vector of width
\* rnn_size; with one encoder of width rnn_size it is that encoder's output,
\* unchanged; otherwise the concatenation is projected to width rnn_size.
\* The projection's weight and bias exist only in the last case: fusion
\* adds no parameter in the first two.
C12_EncoderFusion ==
    /\ d_pc # "fusion" =>
          /\ Len(encoders) = 0 =>
                /\ encoded = [kind |-> "zeros", width |-> rnn_size]
                /\ ProjectionParams = {}
          /\ OneEncoderOfStateWidth =>
                /\ encoded = [kind |-> "identity", width |-> encoders[1]]
                /\ ProjectionParams = {}
          /\ (Len(encoders) >= 1 /\ ~OneEncoderOfStateWidth) =>
                /\ encoded = [kind |-> "projection", width |-> rnn_size]
                /\ Cardinality(ProjectionParams) = 2
                /\ <<"project_encoders", SumWidths(encoders), rnn_size>>
                      \in tf_variables
    /\ d_pc = "placeholders" => tf_variables = ProjectionParams

\* a decoder over one encoder of the state's width, built without projection
C12_Witness ==
    /\ d_pc = "built"
    /\ OneEncoderOfStateWidth
    /\ encoded.kind = "identity"
    /\ ProjectionParams = {}

SourcesOfRow(b) == {selected[b][c].src : c \in Components}

\* C13: in scheduled sampling the choice between the ground truth and the
\* model's prediction is made once per example and timestep: the embedding
\* fed for an example is entirely the ground-truth embedding of step i or
\* entirely the prediction's, never a mixture of components of the two.
C13_OneChoicePerExample ==
    s_pc = "selected" =>
        \A b \in 1..batch_size :
            \/ selected[b] = gt_embedding(s_i, batch_size)[b]
            \/ selected[b] = loop_embedding(s_i, batch_size)[b]

\* what the code does instead: one draw, and one choice, per component
OneChoicePerComponent ==
    s_pc = "selected" =>
        \A b \in 1..batch_size : \A c \in Components :
            selected[b][c].src =
                IF random_uniform[b][c] * threshold.den
                       <= 1000 * threshold.num
                THEN "gt" ELSE "loop"

\* positions inside the body of one batch, after the step was counted
InBatch == {"train", "validate", "vlog"} \cup InEvent

\* the steps whose batch has got past the positions given (a batch that
\* crashed is not counted)
BatchesDone(before) ==
    IF pc \in before \cup {"crashed"} \/ interrupted \in before
    THEN step - 1
    ELSE step

ValidatedSteps == {history[k].params : k \in DOMAIN history}

LoggedSteps == {train_logs[k] : k \in DOMAIN train_logs}

Windows(period, last) == {w \in 1..last : w + period - 1 <= last}

\* C14: every batch runs the optimizer once, on a logging step or not;
\* every window of validation_period consecutive steps holds exactly one
\* validation and every window of logging_period consecutive steps exactly
\* one logging of the training-set metrics, none of them repeated; the
\* step counter counts the batches of all epochs.
C14_OneStepPerBatch ==
    /\ trainer_runs =
          IF pc = "train" \/ interrupted = "train" THEN step - 1 ELSE step
    /\ pc \in InBatch => step = i * BatchesPerEpoch + batch_n + 1
    /\ pc = "batch" => step = i * BatchesPerEpoch + batch_iter
    /\ \A w \in Windows(validation_period,
                        BatchesDone({"train", "validate"})) :
          Cardinality(ValidatedSteps \cap (w..(w + validation_period - 1)))
              = 1
    /\ Cardinality(ValidatedSteps) = Len(history)
    /\ ValidatedSteps \subseteq 1..step
    /\ \A w \in Windows(logging_period, BatchesDone({"train"})) :
          Cardinality(LoggedSteps \cap (w..(w + logging_period - 1))) = 1
    /\ Cardinality(LoggedSteps) = Len(train_logs)
    /\ LoggedSteps \subseteq 1..step

\* the second epoch, after four batches: four optimizer runs, two
\* validations, four loggings
C14_Witness ==
    /\ pc = "batch"
    /\ i = 1
    /\ step = 4
    /\ trainer_runs = 4
    /\ validation_period = 2
    /\ ValidatedSteps = {1, 3}
    /\ LoggedSteps = {1, 2, 3, 4}

\* the same with a window of three steps: one logging and one validation
\* in four batches
C14_WindowOfThree ==
    /\ pc = "batch"
    /\ step = 4
    /\ validation_period = 3
    /\ logging_period = 3
    /\ ValidatedSteps = {2}
    /\ LoggedSteps = {2}

StepFunction == IF copy_net THEN "copy" ELSE "greedy"

GroundTruth(position) == [src |-> "gt", pos |-> position, fn |-> "none"]

StepsOf(outputs) == [n \in DOMAIN outputs |-> outputs[n].step]

\* C16 (as claimed): each of the two passes unrolls the cell for
\* max_output_len + 2 steps, with one hidden state per step.
C16_UnrollsLenPlusTwo ==
    d_pc = "built" =>
        /\ Len(rnn_outputs_gt_ins) = max_out_len + 2
        /\ Len(rnn_outputs_decoded_ins) = max_out_len + 2
        /\ Len(hidden_states) = max_out_len + 2

\* C16 (amended): each of the two passes unrolls the cell for
\* max_output_len + 1 steps, numbered 0..max_output_len, one per embedded
\* input (all of the max_output_len + 2 placeholders but the last), with
\* one hidden state per step.
C16_UnrollsLenPlusOne ==
    /\ d_pc \in {"decoded_pass", "built"} =>
          StepsOf(rnn_outputs_gt_ins) = [n \in 1..(max_out_len + 1) |-> n - 1]
    /\ d_pc = "built" =>
          /\ Len(gt_inputs) = max_out_len + 2
          /\ Len(embedded_gt_inputs) = Len(gt_inputs) - 1
          /\ StepsOf(rnn_outputs_decoded_ins) =
                [n \in 1..(max_out_len + 1) |-> n - 1]
          /\ StepsOf(hidden_states) = StepsOf(rnn_outputs_decoded_ins)

\* a decoder of output length 1, built with and without a loop function
\* for its ground-truth pass: two steps in each pass, three placeholders
C16_Witness ==
    /\ d_pc = "built"
    /\ max_out_len = 1
    /\ Len(gt_inputs) = 3
    /\ Len(rnn_outputs_gt_ins) = 2
    /\ Len(hidden_states) = 2

TypeOK == pc \in Pcs
====
